---- MODULE Spec2Model ----
(***************************************************************************)
(* File-backed JSON document store of server.js: the users / settings /    *)
(* messages documents, the readJSONFile / writeJSONFile primitives and the *)
(* eight storage endpoints, with each handler split at its awaits so that  *)
(* concurrent requests interleave at file-operation granularity.           *)
(***************************************************************************)
EXTENDS Integers, Sequences, FiniteSets, TLC

(***************************************************************************)
(* Bounds of the model.                                                    *)
(***************************************************************************)
\* total number of requests issued in one behaviour
MaxRequests == 3

\* the requests of a behaviour run alone or in overlapping pairs: a request
\* occupies one of two slots from its arrival to its response (with a third
\* slot the state space at MaxRequests = 3 grows tenfold and the invariants
\* below hold as well)
Slots == {1, 2}

(***************************************************************************)
(* JSON values.  Every value is a record with the same four fields so that *)
(* values of different kinds can be compared: k is the kind, s the text of *)
(* a string or literal, m the members of an object (in insertion order),   *)
(* e the elements of an array.                                             *)
(***************************************************************************)
Str(s) == [k |-> "str", s |-> s, m |-> <<>>, e |-> <<>>]
Lit(s) == [k |-> "lit", s |-> s, m |-> <<>>, e |-> <<>>]
Obj(m) == [k |-> "obj", s |-> "", m |-> m, e |-> <<>>]
Arr(e) == [k |-> "arr", s |-> "", m |-> <<>>, e |-> e]
Mem(key, val) == [key |-> key, val |-> val]
\* JavaScript's undefined: a missing property, a missing response field
Undefined == [k |-> "undef", s |-> "", m |-> <<>>, e |-> <<>>]

\* o[key] of JavaScript: the value of the last member named key, undefined
\* when o is not an object or has no such member
Prop(o, key) ==
  LET idx == {i \in 1..Len(o.m) : o.m[i].key = key}
  IN  IF o.k = "obj" /\ idx # {}
        THEN o.m[CHOOSE i \in idx : \A j \in idx : j <= i].val
        ELSE Undefined

(***************************************************************************)
(* JSON text is a sequence of tokens: the six punctuation tokens, the      *)
(* literals, and one token per string.                                     *)
(***************************************************************************)
Punct == {"[", "]", "{", "}", ",", ":"}
Literals == {"true", "false", "null"}

RECURSIVE JSONstringify(_)
RECURSIVE StringifyMembers(_, _)
RECURSIVE StringifyElements(_, _)
\* JSON.stringify(v)
JSONstringify(v) ==
  CASE v.k = "obj" -> <<"{">> \o StringifyMembers(v.m, 1) \o <<"}">>
    [] v.k = "arr" -> <<"[">> \o StringifyElements(v.e, 1) \o <<"]">>
    [] OTHER -> <<v.s>>
StringifyMembers(m, i) ==
  IF i > Len(m) THEN <<>>
  ELSE (IF i > 1 THEN <<",">> ELSE <<>>)
       \o <<m[i].key, ":">> \o JSONstringify(m[i].val)
       \o StringifyMembers(m, i + 1)
StringifyElements(e, i) ==
  IF i > Len(e) THEN <<>>
  ELSE (IF i > 1 THEN <<",">> ELSE <<>>)
       \o JSONstringify(e[i]) \o StringifyElements(e, i + 1)

\* result of a parse step: ok, the value, and the index of the next token
ParseFail == [ok |-> FALSE, v |-> Undefined, n |-> 0]
ParseOk(v, n) == [ok |-> TRUE, v |-> v, n |-> n]

RECURSIVE ParseValue(_, _)
RECURSIVE ParseElements(_, _, _)
RECURSIVE ParseMembers(_, _, _)
\* one JSON value starting at token i of t
ParseValue(t, i) ==
  IF i > Len(t) THEN ParseFail
  ELSE IF t[i] = "[" THEN
         IF i + 1 <= Len(t) /\ t[i + 1] = "]"
           THEN ParseOk(Arr(<<>>), i + 2)
           ELSE ParseElements(t, i + 1, <<>>)
  ELSE IF t[i] = "{" THEN
         IF i + 1 <= Len(t) /\ t[i + 1] = "}"
           THEN ParseOk(Obj(<<>>), i + 2)
           ELSE ParseMembers(t, i + 1, <<>>)
  ELSE IF t[i] \in Punct THEN ParseFail
  ELSE IF t[i] \in Literals THEN ParseOk(Lit(t[i]), i + 1)
  ELSE ParseOk(Str(t[i]), i + 1)
\* the elements of an array from token i on, acc being those already read
ParseElements(t, i, acc) ==
  LET r == ParseValue(t, i)
  IN  IF ~r.ok \/ r.n > Len(t) THEN ParseFail
      ELSE IF t[r.n] = "," THEN ParseElements(t, r.n + 1, Append(acc, r.v))
      ELSE IF t[r.n] = "]" THEN ParseOk(Arr(Append(acc, r.v)), r.n + 1)
      ELSE ParseFail
\* the members of an object from token i on
ParseMembers(t, i, acc) ==
  IF i + 1 > Len(t) \/ t[i] \in Punct \/ t[i] \in Literals \/ t[i + 1] # ":"
    THEN ParseFail
    ELSE LET r == ParseValue(t, i + 2)
         IN  IF ~r.ok \/ r.n > Len(t) THEN ParseFail
             ELSE IF t[r.n] = ","
               THEN ParseMembers(t, r.n + 1, Append(acc, Mem(t[i], r.v)))
             ELSE IF t[r.n] = "}"
               THEN ParseOk(Obj(Append(acc, Mem(t[i], r.v))), r.n + 1)
             ELSE ParseFail
\* JSON.parse(data): the value, or a SyntaxError (ok = FALSE) when the text
\* is empty, truncated or followed by further tokens
JSONparse(t) ==
  LET r == ParseValue(t, 1)
  IN  IF r.ok /\ r.n = Len(t) + 1 THEN r ELSE ParseFail

(***************************************************************************)
(* The documents and the requests.                                         *)
(***************************************************************************)
USERS_FILE == "users.json"
SETTINGS_FILE == "settings.json"
MESSAGES_FILE == "messages.json"
Files == {USERS_FILE, SETTINGS_FILE, MESSAGES_FILE}

\* the defaultSettings literal of GET /api/storage/settings
defaultSettings ==
  Obj(<<Mem("systemSettings",
            Obj(<<Mem("recaptchaEnabled", Lit("false")),
                  Mem("recaptchaSiteKey", Str("")),
                  Mem("recaptchaSecretKey", Str(""))>>)),
        Mem("walletConfig", Obj(<<>>)),
        Mem("welcomePageTemplate", Obj(<<>>)),
        Mem("welcomeInboxTemplate", Obj(<<>>)),
        Mem("chatbotSettings", Obj(<<>>)),
        Mem("testimonials", Arr(<<>>))>>)

\* variant with a slip: no handler passes a default, so that readJSONFile's
\* own `defaultValue = []` applies to every document
DefaultParameterOnly(f) == Arr(<<>>)

\* the defaultValue each handler passes to readJSONFile
DefaultValue(f) == IF f = SETTINGS_FILE THEN defaultSettings ELSE Arr(<<>>)

\* the document an endpoint works on
FileOf(op) ==
  CASE op \in {"list", "get", "upsert", "delete"} -> USERS_FILE
    [] op \in {"getSettings", "putSettings"} -> SETTINGS_FILE
    [] OTHER -> MESSAGES_FILE

\* path parameters :userId
Ids == {"u1", "u2"}
User(id, name) == Obj(<<Mem("id", Str(id)), Mem("name", Str(name))>>)
\* request bodies accepted by express.json(): any JSON object or array
UserBodies ==
  {User("u1", "a"), User("u1", "b"), User("u2", "a"),
   Obj(<<Mem("name", Str("a"))>>)}
SettingsBodies == {Obj(<<Mem("walletConfig", Obj(<<>>))>>), Arr(<<Str("x")>>)}
MessagesBodies == {Arr(<<Obj(<<Mem("text", Str("hi"))>>)>>), Obj(<<>>)}

\* the JSON envelope and status of a response
Response(status, success, data, message) ==
  [status |-> status, success |-> success, data |-> data, message |-> message]
NoResponse == Response(0, FALSE, Undefined, "")
NoRequest == [op |-> "none", id |-> "", body |-> Undefined, n |-> 0]
NoFile == [exists |-> FALSE, content |-> <<>>]
NoPred == [req |-> NoRequest, resp |-> NoResponse, pre |-> NoFile]

VARIABLES
  exists,       \* exists[f]: the file f is present in the storage directory
  content,      \* content[f]: the tokens of file f
  pc,           \* pc[p]: the file operation request p is waiting for
  req,          \* req[p]: endpoint, path id, body and number of request p
  buf,          \* buf[p]: the serialized text request p is writing
  resp,         \* resp[p]: the response sent to request p
  nreq,         \* number of requests issued so far
  solo,         \* solo[p]: no other request was in flight during request p
  pre,          \* pre[p]: the request's document as it was when p arrived
  pred,         \* pred[p]: the request answered just before p arrived
  everMismatch, \* some upsert's body carried an id other than its path id
  io,           \* "ok", or "fail" while the file system refuses operations
  boot,         \* where the start-up of the process stands
  dirs,         \* the directories that exist, storage root and media
  cred,         \* which of EMAIL_USER and EMAIL_APP_PASSWORD are set
  mail          \* mail[p]: what request p did with the mail transport

\* the documents, the requests and what is recorded of them
store == <<exists, content, pc, req, buf, resp, nreq, solo, pre, pred,
           everMismatch>>

\* the process and its surroundings, which no storage handler changes
world == <<io, boot, dirs, cred, mail>>

vars == <<exists, content, pc, req, buf, resp, nreq, solo, pre, pred,
          everMismatch, world>>

\* the storage root and the media directories of ensureStorageExists
STORAGE_DIR == "storage"
MediaDirs == <<"storage/inbox_media", "storage/media",
               "storage/media/welcome_page", "storage/media/welcome_inbox">>
AllDirs == {STORAGE_DIR} \cup {MediaDirs[i] : i \in 1..Len(MediaDirs)}

\* a request that has not touched the mail transport
NoMail == [attempted |-> FALSE, outcome |-> "none"]

Init ==
  /\ exists = [f \in Files |-> FALSE]
  /\ content = [f \in Files |-> <<>>]
  /\ pc = [p \in Slots |-> "idle"]
  /\ req = [p \in Slots |-> NoRequest]
  /\ buf = [p \in Slots |-> <<>>]
  /\ resp = [p \in Slots |-> NoResponse]
  /\ nreq = 0
  /\ solo = [p \in Slots |-> FALSE]
  /\ pre = [p \in Slots |-> NoFile]
  /\ pred = [p \in Slots |-> NoPred]
  /\ everMismatch = FALSE
  /\ io = "ok"
  /\ boot = "listening"
  /\ dirs = AllDirs
  /\ cred = [user |-> TRUE, pass |-> TRUE]
  /\ mail = [p \in Slots |-> NoMail]

(***************************************************************************)
(* The handlers' computations between two awaits.                          *)
(***************************************************************************)
\* u.id === req.params.userId
IdMatches(u, id) == Prop(u, "id") = Str(id)

\* users.findIndex(u => u.id === id), 1-based; 0 when there is none
FindIndex(users, id) ==
  LET idx == {i \in 1..Len(users) : IdMatches(users[i], id)}
  IN  IF idx = {} THEN 0 ELSE CHOOSE i \in idx : \A j \in idx : i <= j

\* variants of the upsert with a slip: the body is always pushed; the body
\* is stored one position after the match; the match is removed and the body
\* pushed
UpsertAlwaysPush(users, id, body) == Append(users, body)
UpsertOffByOne(users, id, body) ==
  LET userIndex == FindIndex(users, id)
  IN  IF userIndex >= 1 /\ userIndex + 1 <= Len(users)
        THEN [users EXCEPT ![userIndex + 1] = body]
        ELSE Append(users, body)
UpsertRemoveThenPush(users, id, body) ==
  LET userIndex == FindIndex(users, id)
  IN  IF userIndex >= 1
        THEN Append(SubSeq(users, 1, userIndex - 1)
                      \o SubSeq(users, userIndex + 1, Len(users)), body)
        ELSE Append(users, body)

\* users[userIndex] = req.body, or users.push(req.body)
UpsertApply(users, id, body) ==
  LET userIndex == FindIndex(users, id)
  IN  IF userIndex >= 1 THEN [users EXCEPT ![userIndex] = body]
      ELSE Append(users, body)

\* variants of the delete with a slip: the filter keeps the matches; the
\* records are cut with users.splice(userIndex)
DeleteKeepsMatches(users, id) == SelectSeq(users, LAMBDA u : IdMatches(u, id))
DeleteSplice(users, id) ==
  LET userIndex == FindIndex(users, id)
  IN  IF userIndex >= 1 THEN SubSeq(users, 1, userIndex - 1)
      ELSE SubSeq(users, 1, Len(users) - 1)

\* users.filter(u => u.id !== id)
DeleteApply(users, id) == SelectSeq(users, LAMBDA u : ~IdMatches(u, id))

\* variant with a slip: the `if (!user)` test is missing, so an unknown id is
\* answered 200 without data
GetRespondUnchecked(users, id) ==
  LET i == FindIndex(users, id)
  IN  IF i >= 1 THEN Response(200, TRUE, users[i], "")
      ELSE Response(200, TRUE, Undefined, "")

\* the response of GET /api/storage/users/:userId once users is read
GetRespond(users, id) ==
  LET i == FindIndex(users, id)
  IN  IF i >= 1 THEN Response(200, TRUE, users[i], "")
      ELSE Response(404, FALSE, Undefined, "User not found")

\* the catch block of every handler
ErrorResponse(message) == Response(500, FALSE, Undefined, message)

\* fs.writeFile's write at offset 0 of a file opened by its own open call:
\* the text replaces the first Len(text) tokens and tokens another writer
\* put beyond them stay
WriteAt0(old, text) ==
  IF Len(old) > Len(text)
    THEN text \o SubSeq(old, Len(text) + 1, Len(old))
    ELSE text

(***************************************************************************)
(* Arrival of a request: express runs the handler up to its first await.   *)
(***************************************************************************)
InFlight == {p \in Slots : pc[p] # "idle"}

\* the request completed just before a new one arrives, when it ran alone
LastCompleted ==
  LET done == {q \in Slots : /\ nreq > 0
                             /\ req[q].n = nreq
                             /\ pc[q] = "idle"
                             /\ solo[q]}
  IN  IF done = {} THEN NoPred
      ELSE LET q == CHOOSE q \in done : TRUE
           IN  [req |-> req[q], resp |-> resp[q], pre |-> pre[q]]

\* variant with a slip: app.listen is called next to ensureStorageExists()
\* and not in its .then, so that requests are served while it runs
ListeningAtOnce == boot # "exited"

\* app.listen has been called: the process accepts requests
Listening == boot = "listening"

\* request number nreq + 1 arrives in the lowest free slot p and waits for
\* its first file operation: first = "read" for the handlers that begin with
\* readJSONFile, "open" for those that begin with writeJSONFile(req.body).
\* The records kept of earlier requests are dropped once they can no longer
\* be told apart from the new one's effects: those of answered requests, and
\* pre and pred of requests that no longer run alone.
Arrive(p, op, id, body, first) ==
  /\ Listening
  /\ nreq < MaxRequests
  /\ pc[p] = "idle"
  /\ \A q \in Slots : q < p => pc[q] # "idle"
  /\ nreq' = nreq + 1
  /\ req' = [q \in Slots |->
               IF q = p THEN [op |-> op, id |-> id, body |-> body,
                              n |-> nreq + 1]
               ELSE IF pc[q] = "idle" THEN NoRequest ELSE req[q]]
  /\ pc' = [pc EXCEPT ![p] = first]
  /\ buf' = [buf EXCEPT ![p] = IF first = "open" THEN JSONstringify(body)
                               ELSE <<>>]
  /\ resp' = [q \in Slots |->
                IF q = p \/ pc[q] = "idle" THEN NoResponse ELSE resp[q]]
  /\ solo' = [q \in Slots |-> IF q = p THEN InFlight = {} ELSE FALSE]
  /\ pre' = [q \in Slots |->
               IF q = p /\ InFlight = {}
                 THEN [exists |-> exists[FileOf(op)],
                       content |-> content[FileOf(op)]]
                 ELSE NoFile]
  /\ pred' = [q \in Slots |->
                IF q = p /\ InFlight = {} THEN LastCompleted ELSE NoPred]
  /\ everMismatch' = (everMismatch \/
                      (op = "upsert" /\ Prop(body, "id") \notin
                                          {Undefined, Str(id)}))
  /\ UNCHANGED <<exists, content, world>>

\* GET /api/storage/users
ListUsers(p) == Arrive(p, "list", "", Undefined, "read")
\* GET /api/storage/users/:userId
GetUser(p) == \E id \in Ids : Arrive(p, "get", id, Undefined, "read")
\* POST /api/storage/users/:userId
UpsertUser(p) ==
  \E id \in Ids, body \in UserBodies : Arrive(p, "upsert", id, body, "read")
\* DELETE /api/storage/users/:userId
DeleteUser(p) == \E id \in Ids : Arrive(p, "delete", id, Undefined, "read")
\* GET /api/storage/settings
GetSettings(p) == Arrive(p, "getSettings", "", Undefined, "read")
\* POST /api/storage/settings
PutSettings(p) ==
  \E body \in SettingsBodies : Arrive(p, "putSettings", "", body, "open")
\* GET /api/storage/messages
GetMessages(p) == Arrive(p, "getMessages", "", Undefined, "read")
\* POST /api/storage/messages
PutMessages(p) ==
  \E body \in MessagesBodies : Arrive(p, "putMessages", "", body, "open")

(***************************************************************************)
(* Completion of the file operations a handler awaits.                     *)
(***************************************************************************)
\* res.json / res.status(..).json: the request is answered
Respond(p, r) ==
  /\ resp' = [resp EXCEPT ![p] = r]
  /\ pc' = [pc EXCEPT ![p] = "idle"]
  /\ buf' = [buf EXCEPT ![p] = <<>>]

\* variant with a slip: the catch block logs the error and sends nothing, so
\* the request stays open for ever
CatchSilent(p, message) ==
  /\ pc' = [pc EXCEPT ![p] = "hung"]
  /\ UNCHANGED <<resp, buf>>

\* a storage handler's catch block:
\* res.status(500).json({ success: false, message: error.message })
Catch(p, message) == Respond(p, ErrorResponse(message))

\* the handler's code after `await readJSONFile(..)` returned value v
AfterRead(p, v) ==
  LET op == req[p].op
      id == req[p].id
  IN  CASE op \in {"list", "getSettings", "getMessages"} ->
             Respond(p, Response(200, TRUE, v, ""))
        [] op = "get" ->
             IF v.k = "arr" THEN Respond(p, GetRespond(v.e, id))
             ELSE Catch(p, "TypeError")
        [] op = "upsert" ->
             IF v.k = "arr"
               THEN /\ buf' = [buf EXCEPT ![p] =
                         JSONstringify(Arr(UpsertApply(v.e, id, req[p].body)))]
                    /\ pc' = [pc EXCEPT ![p] = "open"]
                    /\ UNCHANGED resp
               ELSE Catch(p, "TypeError")
        [] op = "delete" ->
             IF v.k = "arr"
               THEN /\ buf' = [buf EXCEPT ![p] =
                         JSONstringify(Arr(DeleteApply(v.e, id)))]
                    /\ pc' = [pc EXCEPT ![p] = "open"]
                    /\ UNCHANGED resp
               ELSE Catch(p, "TypeError")

\* the handler's code after `await writeJSONFile(..)` of its own data
AfterWrite(p) ==
  IF req[p].op = "delete"
    THEN Respond(p, Response(200, TRUE, Undefined, "User deleted"))
    ELSE Respond(p, Response(200, TRUE, req[p].body, ""))

ghost == <<nreq, req, solo, pre, pred, everMismatch, world>>

\* variant with a slip: the catch block does not test error.code, so a text
\* that is not JSON is replaced by the default like a missing file
readJSONFileAnyError(p) ==
  /\ pc[p] = "read"
  /\ io = "ok"
  /\ LET f == FileOf(req[p].op)
     IN  IF ~exists[f] \/ ~JSONparse(content[f]).ok
           THEN /\ buf' = [buf EXCEPT ![p] = JSONstringify(DefaultValue(f))]
                /\ pc' = [pc EXCEPT ![p] = "mat_open"]
                /\ UNCHANGED resp
           ELSE AfterRead(p, JSONparse(content[f]).v)
  /\ UNCHANGED <<exists, content, ghost>>

\* readJSONFile: fs.readFile completes, with the file's text or ENOENT
readJSONFile(p) ==
  /\ pc[p] = "read"
  /\ io = "ok"
  /\ LET f == FileOf(req[p].op)
     IN  IF ~exists[f]
           THEN \* catch ENOENT: writeJSONFile(filePath, defaultValue) begins
                /\ buf' = [buf EXCEPT ![p] = JSONstringify(DefaultValue(f))]
                /\ pc' = [pc EXCEPT ![p] = "mat_open"]
                /\ UNCHANGED resp
           ELSE LET r == JSONparse(content[f])
                IN  IF r.ok THEN AfterRead(p, r.v)
                    ELSE Catch(p, "SyntaxError")
  /\ UNCHANGED <<exists, content, ghost>>

\* variant with a slip: the file is opened with flag 'a+', created if absent
\* and not truncated (the write still starts at offset 0 in this model)
OpenKeep(p, next) ==
  LET f == FileOf(req[p].op)
  IN  /\ io = "ok"
      /\ exists' = [exists EXCEPT ![f] = TRUE]
      /\ pc' = [pc EXCEPT ![p] = next]
      /\ UNCHANGED <<content, buf, resp, ghost>>

\* fs.writeFile opens the file with flag 'w': created if absent, truncated
OpenTruncate(p, next) ==
  LET f == FileOf(req[p].op)
  IN  /\ io = "ok"
      /\ exists' = [exists EXCEPT ![f] = TRUE]
      /\ content' = [content EXCEPT ![f] = <<>>]
      /\ pc' = [pc EXCEPT ![p] = next]
      /\ UNCHANGED <<buf, resp, ghost>>

\* fs.writeFile writes the text through its own descriptor, from offset 0
WriteText(p) ==
  LET f == FileOf(req[p].op)
  IN  /\ io = "ok"
      /\ content' = [content EXCEPT ![f] = WriteAt0(content[f], buf[p])]
      /\ UNCHANGED <<exists, ghost>>

\* readJSONFile line 47, first half: the default's file is opened
readJSONFileDefaultOpen(p) == pc[p] = "mat_open" /\ OpenTruncate(p, "mat_write")
\* readJSONFile lines 47-48: the default is written and returned
readJSONFileDefaultWrite(p) ==
  /\ pc[p] = "mat_write"
  /\ WriteText(p)
  /\ AfterRead(p, DefaultValue(FileOf(req[p].op)))
\* writeJSONFile of the handler's data, first half: the file is opened
writeJSONFileOpen(p) == pc[p] = "open" /\ OpenTruncate(p, "write")
\* writeJSONFile of the handler's data: the text is written
writeJSONFileWrite(p) ==
  /\ pc[p] = "write"
  /\ WriteText(p)
  /\ AfterWrite(p)

\* the file operations in flight
Step(p) ==
  \/ readJSONFile(p)
  \/ readJSONFileDefaultOpen(p)
  \/ readJSONFileDefaultWrite(p)
  \/ writeJSONFileOpen(p)
  \/ writeJSONFileWrite(p)

(***************************************************************************)
(* File operations that fail with an error other than ENOENT (EACCES, EIO, *)
(* ENOSPC, ..): the promise rejects, nothing is retried, and the error     *)
(* reaches the handler's catch block.                                      *)
(***************************************************************************)
\* fs.readFile rejects: readJSONFile rethrows (line 50), the file is as it was
readFileFails(p) ==
  /\ pc[p] = "read"
  /\ io = "fail"
  /\ Catch(p, "EACCES")
  /\ UNCHANGED <<exists, content, ghost>>

\* fs.writeFile rejects on opening the file, which is not touched
openFails(p) ==
  /\ pc[p] \in {"open", "mat_open"}
  /\ io = "fail"
  /\ Catch(p, "EACCES")
  /\ UNCHANGED <<exists, content, ghost>>

\* fs.writeFile rejects after it opened the file: the file stays truncated
writeFails(p) ==
  /\ pc[p] \in {"write", "mat_write"}
  /\ io = "fail"
  /\ Catch(p, "EIO")
  /\ UNCHANGED <<exists, content, ghost>>

Fault(p) == readFileFails(p) \/ openFails(p) \/ writeFails(p)

\* the file system starts to refuse operations
DiskFails ==
  /\ io = "ok"
  /\ io' = "fail"
  /\ UNCHANGED <<store, boot, dirs, cred, mail>>

\* the file system serves operations again
DiskRecovers ==
  /\ io = "fail"
  /\ io' = "ok"
  /\ UNCHANGED <<store, boot, dirs, cred, mail>>

\* the Users collection: every endpoint under /api/storage/users
Next ==
  \E p \in Slots :
    \/ ListUsers(p)
    \/ GetUser(p)
    \/ UpsertUser(p)
    \/ DeleteUser(p)
    \/ Step(p)

Spec == Init /\ [][Next]_vars

\* the whole-document reads and replacements of the three documents
NextDocs ==
  \E p \in Slots :
    \/ ListUsers(p)
    \/ GetSettings(p)
    \/ PutSettings(p)
    \/ GetMessages(p)
    \/ PutMessages(p)
    \/ Step(p)

SpecDocs == Init /\ [][NextDocs]_vars

\* the process is started on a Users document an earlier run has stored
InitStored ==
  /\ exists = [f \in Files |-> f = USERS_FILE]
  /\ content = [f \in Files |->
                  IF f = USERS_FILE
                    THEN JSONstringify(Arr(<<User("u1", "a")>>))
                    ELSE <<>>]
  /\ pc = [p \in Slots |-> "idle"]
  /\ req = [p \in Slots |-> NoRequest]
  /\ buf = [p \in Slots |-> <<>>]
  /\ resp = [p \in Slots |-> NoResponse]
  /\ nreq = 0
  /\ solo = [p \in Slots |-> FALSE]
  /\ pre = [p \in Slots |-> NoFile]
  /\ pred = [p \in Slots |-> NoPred]
  /\ everMismatch = FALSE
  /\ io = "ok"
  /\ boot = "listening"
  /\ dirs = AllDirs
  /\ cred = [user |-> TRUE, pass |-> TRUE]
  /\ mail = [p \in Slots |-> NoMail]
(***************************************************************************)
(* POST /api/send-verification-email                                       *)
(***************************************************************************)
\* request bodies: none (req.body undefined) or { email, code }
MailBodies == {Undefined,
               Obj(<<Mem("email", Str("a")), Mem("code", Str("x"))>>)}

\* variant with a slip: only EMAIL_USER is tested
createTransporterUserOnly == IF cred.user THEN "transport" ELSE "null"

\* createTransporter: null unless both environment variables are set
createTransporter == IF cred.user /\ cred.pass THEN "transport" ELSE "null"

\* the handler up to its first await: destructuring an undefined body throws
\* into the catch block, a null transporter is answered at once, otherwise
\* transporter.sendMail is called and awaited
sendVerificationEmail(p) ==
  \E body \in MailBodies :
    /\ Listening
    /\ nreq < MaxRequests
    /\ pc[p] = "idle"
    /\ \A q \in Slots : q < p => pc[q] # "idle"
    /\ nreq' = nreq + 1
    /\ req' = [q \in Slots |->
                 IF q = p THEN [op |-> "sendMail", id |-> "", body |-> body,
                                n |-> nreq + 1]
                 ELSE IF pc[q] = "idle" THEN NoRequest ELSE req[q]]
    /\ solo' = [q \in Slots |-> FALSE]
    /\ pre' = [q \in Slots |-> NoFile]
    /\ pred' = [q \in Slots |-> NoPred]
    /\ IF body = Undefined \/ createTransporter = "null"
         THEN /\ resp' = [q \in Slots |->
                           IF q = p THEN Response(500, FALSE, Undefined, "")
                           ELSE IF pc[q] = "idle" THEN NoResponse
                           ELSE resp[q]]
              /\ mail' = [mail EXCEPT ![p] = NoMail]
              /\ pc' = pc
         ELSE /\ resp' = [q \in Slots |->
                           IF q = p \/ pc[q] = "idle" THEN NoResponse
                           ELSE resp[q]]
              /\ mail' = [mail EXCEPT ![p] =
                            [attempted |-> TRUE, outcome |-> "pending"]]
              /\ pc' = [pc EXCEPT ![p] = "send"]
    /\ UNCHANGED <<exists, content, buf, everMismatch, io, boot, dirs, cred>>

\* await transporter.sendMail(mailOptions) resolves: res.json({ success: true })
sendMailResolves(p) ==
  /\ pc[p] = "send"
  /\ mail' = [mail EXCEPT ![p].outcome = "sent"]
  /\ Respond(p, Response(200, TRUE, Undefined, ""))
  /\ UNCHANGED <<exists, content, nreq, req, solo, pre, pred, everMismatch,
                 io, boot, dirs, cred>>

\* it rejects: catch { res.status(500).json({ success: false }) }
sendMailRejects(p) ==
  /\ pc[p] = "send"
  /\ mail' = [mail EXCEPT ![p].outcome = "failed"]
  /\ Respond(p, Response(500, FALSE, Undefined, ""))
  /\ UNCHANGED <<exists, content, nreq, req, solo, pre, pred, everMismatch,
                 io, boot, dirs, cred>>

\* the process runs with any subset of the two environment variables set
InitMail ==
  /\ exists = [f \in Files |-> FALSE]
  /\ content = [f \in Files |-> <<>>]
  /\ pc = [p \in Slots |-> "idle"]
  /\ req = [p \in Slots |-> NoRequest]
  /\ buf = [p \in Slots |-> <<>>]
  /\ resp = [p \in Slots |-> NoResponse]
  /\ nreq = 0
  /\ solo = [p \in Slots |-> FALSE]
  /\ pre = [p \in Slots |-> NoFile]
  /\ pred = [p \in Slots |-> NoPred]
  /\ everMismatch = FALSE
  /\ io = "ok"
  /\ boot = "listening"
  /\ dirs = AllDirs
  /\ cred \in [user : BOOLEAN, pass : BOOLEAN]
  /\ mail = [p \in Slots |-> NoMail]

\* verification mails next to requests for the messages document
NextMail ==
  \E p \in Slots :
    \/ sendVerificationEmail(p)
    \/ sendMailResolves(p)
    \/ sendMailRejects(p)
    \/ GetMessages(p)
    \/ PutMessages(p)
    \/ Step(p)
SpecMail == InitMail /\ [][NextMail]_vars

\* the requests that arrive in a run on all documents
MaxRequestsIO == 2

(***************************************************************************)
(* Start-up: ensureStorageExists().then(() => app.listen(..)).catch(..)    *)
(***************************************************************************)
\* the directories ensureStorageExists creates, in the order of its mkdir calls
MkdirTargets == <<STORAGE_DIR>> \o MediaDirs
MkdirPc == <<"mkdir1", "mkdir2", "mkdir3", "mkdir4", "mkdir5">>

\* a directory and the directories above it, which { recursive: true } creates
WithParents(d) ==
  IF d \in {"storage/media/welcome_page", "storage/media/welcome_inbox"}
    THEN {d, "storage/media", STORAGE_DIR}
    ELSE {d, STORAGE_DIR}

\* the sets of directories that can exist: a directory lies in its parent
DirSets == {D \in SUBSET AllDirs : \A d \in D : WithParents(d) \subseteq D}

\* the process starts on any directory tree, with or without mail credentials
InitBoot ==
  /\ exists = [f \in Files |-> FALSE]
  /\ content = [f \in Files |-> <<>>]
  /\ pc = [p \in Slots |-> "idle"]
  /\ req = [p \in Slots |-> NoRequest]
  /\ buf = [p \in Slots |-> <<>>]
  /\ resp = [p \in Slots |-> NoResponse]
  /\ nreq = 0
  /\ solo = [p \in Slots |-> FALSE]
  /\ pre = [p \in Slots |-> NoFile]
  /\ pred = [p \in Slots |-> NoPred]
  /\ everMismatch = FALSE
  /\ io \in {"ok", "fail"}
  /\ boot = "access"
  /\ dirs \in DirSets
  /\ cred = [user |-> TRUE, pass |-> TRUE]
  /\ mail = [p \in Slots |-> NoMail]

\* await fs.access(STORAGE_DIR): resolved, the function returns at once;
\* rejected for whatever reason, the catch block begins its mkdir calls
fsAccess ==
  /\ boot = "access"
  /\ boot' = IF io = "ok" /\ STORAGE_DIR \in dirs THEN "ready" ELSE MkdirPc[1]
  /\ UNCHANGED <<store, io, dirs, cred, mail>>

\* await fs.mkdir(.., { recursive: true }), the k-th of the catch block
fsMkdir(k) ==
  /\ boot = MkdirPc[k]
  /\ io = "ok"
  /\ dirs' = dirs \cup WithParents(MkdirTargets[k])
  /\ boot' = IF k < Len(MkdirPc) THEN MkdirPc[k + 1] ELSE "ready"
  /\ UNCHANGED <<store, io, cred, mail>>

\* a mkdir rejects: .catch(err => { console.error(..); process.exit(1) })
processExit ==
  /\ boot \in {MkdirPc[k] : k \in 1..Len(MkdirPc)}
  /\ io = "fail"
  /\ boot' = "exited"
  /\ UNCHANGED <<store, io, dirs, cred, mail>>

\* .then(() => app.listen(PORT, ..))
appListen ==
  /\ boot = "ready"
  /\ boot' = "listening"
  /\ UNCHANGED <<store, io, dirs, cred, mail>>

\* start-up followed by requests for the settings document
NextBoot ==
  \/ fsAccess
  \/ \E k \in 1..Len(MkdirPc) : fsMkdir(k)
  \/ processExit
  \/ appListen
  \/ DiskFails
  \/ DiskRecovers
  \/ \E p \in Slots :
       \/ /\ nreq < MaxRequestsIO
          /\ GetSettings(p) \/ PutSettings(p)
       \/ Step(p)
       \/ Fault(p)
SpecBoot == InitBoot /\ [][NextBoot]_vars

\* every storage endpoint, on a Users document stored earlier
NextStored ==
  \E p \in Slots :
    \/ /\ nreq < MaxRequestsIO
       /\ \/ ListUsers(p)
          \/ GetUser(p)
          \/ UpsertUser(p)
          \/ DeleteUser(p)
          \/ GetSettings(p)
          \/ PutSettings(p)
          \/ GetMessages(p)
          \/ PutMessages(p)
    \/ Step(p)
SpecStored == InitStored /\ [][NextStored]_vars

\* every storage endpoint, on a file system that may fail at any moment
NextIO ==
  \/ \E p \in Slots :
       \/ /\ nreq < MaxRequestsIO
          /\ \/ ListUsers(p)
             \/ GetUser(p)
             \/ UpsertUser(p)
             \/ DeleteUser(p)
             \/ GetSettings(p)
             \/ PutSettings(p)
             \/ GetMessages(p)
             \/ PutMessages(p)
       \/ Step(p)
       \/ Fault(p)
  \/ DiskFails
  \/ DiskRecovers
SpecIO == Init /\ [][NextIO]_vars
\* request p awaits a file operation
Pending(p) == pc[p] \in {"read", "mat_open", "mat_write", "open", "write"}

\* a pending file operation completes or fails: libuv settles every file
\* request and Node runs the continuation of every settled promise.  This is
\* WF_vars(Step(p) \/ Fault(p)) written out, the step being enabled exactly
\* while p is pending.
SpecIOFair ==
  SpecIO /\ \A p \in Slots :
              []<>(~Pending(p)) \/ []<><<Step(p) \/ Fault(p)>>_vars

(***************************************************************************)
(* What the properties below speak about.                                  *)
(***************************************************************************)
\* the value a read of a document finds: the parsed text of an existing
\* file, the declared default of a missing one
ValueOf(file, f) ==
  IF file.exists THEN JSONparse(file.content)
  ELSE ParseOk(DefaultValue(f), 0)

Current(f) == [exists |-> exists[f], content |-> content[f]]

\* the file holds a Users document: absent, or the text of a JSON array
HoldsUsers(file) ==
  ValueOf(file, USERS_FILE).ok /\ ValueOf(file, USERS_FILE).v.k = "arr"
UsersIn(file) == ValueOf(file, USERS_FILE).v.e

\* request p has been answered, it ran with no other request in flight, and
\* no request has arrived since
RanAlone(p, op) == pc[p] = "idle" /\ req[p].op = op /\ solo[p]

\* request p arrived right after request (op, id) had been answered 200,
\* which had run alone as well
Follows(p, op, id) ==
  /\ pred[p].req.op = op
  /\ pred[p].req.id = id
  /\ pred[p].resp.status = 200

UniqueIds(users) ==
  \A i, j \in 1..Len(users) :
    (i # j /\ Prop(users[i], "id") # Undefined)
      => Prop(users[i], "id") # Prop(users[j], "id")

\* C1 as stated: whatever the path ids and bodies of the upserts, no two
\* records of the Users sequence carry the same id.
C1_UniqueIdsAnyBody ==
  HoldsUsers(Current(USERS_FILE)) => UniqueIds(UsersIn(Current(USERS_FILE)))

\* C1 amended: as long as every upsert body that carries an id carries its
\* path id, no two records of the Users sequence carry the same id.
C1_UniqueIdsMatchingBody ==
  (~everMismatch /\ HoldsUsers(Current(USERS_FILE)))
    => UniqueIds(UsersIn(Current(USERS_FILE)))

\* an upsert of an id already stored was answered, among two records
C1_Witness ==
  /\ ~everMismatch
  /\ HoldsUsers(Current(USERS_FILE))
  /\ Len(UsersIn(Current(USERS_FILE))) = 2
  /\ \E p \in Slots :
       /\ RanAlone(p, "upsert")
       /\ resp[p].status = 200
       /\ FindIndex(UsersIn(pre[p]), req[p].id) >= 1

\* C2: two upserts with different ids that overlap on an empty Users
\* document are both answered 200 and the document then holds exactly both
\* records.
C2_NoLostUpdate ==
  \A p, q \in Slots :
    ( /\ p # q
      /\ nreq = 2
      /\ pc[p] = "idle" /\ pc[q] = "idle"
      /\ req[p].op = "upsert" /\ req[q].op = "upsert"
      /\ req[p].id # req[q].id
      /\ Prop(req[p].body, "id") = Str(req[p].id)
      /\ Prop(req[q].body, "id") = Str(req[q].id) )
    => /\ resp[p].status = 200 /\ resp[p].success
       /\ resp[q].status = 200 /\ resp[q].success
       /\ HoldsUsers(Current(USERS_FILE))
       /\ Len(UsersIn(Current(USERS_FILE))) = 2
       /\ {UsersIn(Current(USERS_FILE))[i] : i \in 1..2}
            = {req[p].body, req[q].body}

\* C3: get(i) right after a successful upsert(i, r) with r.id = i answers
\* 200 with data r.
C3_UpsertThenGet ==
  \A p \in Slots :
    ( /\ RanAlone(p, "get")
      /\ Follows(p, "upsert", req[p].id)
      /\ Prop(pred[p].req.body, "id") = Str(req[p].id) )
    => resp[p] = Response(200, TRUE, pred[p].req.body, "")

\* the upsert replaced a record of the id, and the get found the new one
C3_Witness ==
  \E p \in Slots :
    /\ RanAlone(p, "get")
    /\ Follows(p, "upsert", req[p].id)
    /\ Prop(pred[p].req.body, "id") = Str(req[p].id)
    /\ FindIndex(UsersIn(pred[p].pre), req[p].id) >= 1
    /\ UsersIn(pred[p].pre)[1] # pred[p].req.body
    /\ resp[p].data = pred[p].req.body

\* C4: an upsert that runs alone on a Users document replaces the first
\* record of its id in place, or appends the body when there is none, and
\* changes nothing else.
C4_UpsertInPlaceOrAppend ==
  \A p \in Slots :
    (RanAlone(p, "upsert") /\ HoldsUsers(pre[p]))
    => LET old == UsersIn(pre[p])
           new == UsersIn(Current(USERS_FILE))
           i == FindIndex(old, req[p].id)
       IN  /\ resp[p].status = 200
           /\ HoldsUsers(Current(USERS_FILE))
           /\ i >= 1 => /\ Len(new) = Len(old)
                        /\ new[i] = req[p].body
                        /\ \A j \in 1..Len(old) : j # i => new[j] = old[j]
           /\ i = 0 => /\ Len(new) = Len(old) + 1
                       /\ new[Len(new)] = req[p].body
                       /\ \A j \in 1..Len(old) : new[j] = old[j]

\* the second of two records was replaced
C4_Witness ==
  \E p \in Slots :
    /\ RanAlone(p, "upsert")
    /\ HoldsUsers(pre[p])
    /\ FindIndex(UsersIn(pre[p]), req[p].id) = 2
    /\ UsersIn(pre[p])[2] # req[p].body

\* C5: a delete(i) that runs alone on a Users document is answered with
\* success, and a get(i) right after it is answered 404.
C5_DeleteThenGet ==
  \A p \in Slots :
    /\ (RanAlone(p, "delete") /\ HoldsUsers(pre[p]))
         => (resp[p].status = 200 /\ resp[p].success)
    /\ (RanAlone(p, "get") /\ Follows(p, "delete", req[p].id))
         => (resp[p].status = 404 /\ ~resp[p].success)

\* the deleted id had been stored
C5_Witness ==
  \E p \in Slots :
    /\ RanAlone(p, "get")
    /\ Follows(p, "delete", req[p].id)
    /\ FindIndex(UsersIn(pred[p].pre), req[p].id) >= 1
    /\ resp[p].status = 404

\* C6: a delete(i) that runs alone leaves exactly the records whose id is
\* not i, in their order; with no record of id i the sequence is unchanged,
\* and the answer is a success either way.
C6_DeleteKeepsTheOthers ==
  \A p \in Slots :
    (RanAlone(p, "delete") /\ HoldsUsers(pre[p]))
    => LET old == UsersIn(pre[p])
           new == UsersIn(Current(USERS_FILE))
       IN  /\ resp[p].status = 200 /\ resp[p].success
           /\ HoldsUsers(Current(USERS_FILE))
           /\ exists[USERS_FILE]
           /\ new = SelectSeq(old, LAMBDA u : Prop(u, "id") # Str(req[p].id))
           /\ FindIndex(old, req[p].id) = 0 => new = old

\* the first of two records was deleted
C6_Witness ==
  \E p \in Slots :
    /\ RanAlone(p, "delete")
    /\ Len(UsersIn(pre[p])) = 2
    /\ FindIndex(UsersIn(pre[p]), req[p].id) = 1
    /\ Len(UsersIn(Current(USERS_FILE))) = 1

ReadOps == {"list", "get", "getSettings", "getMessages"}
WholeReads == {"list", "getSettings", "getMessages"}

\* C7: the first read of a document whose file is absent answers with the
\* document's declared default, and the file then exists and holds that
\* default; the default settings have systemSettings.recaptchaEnabled false.
C7_FirstReadMaterializesDefault ==
  \A p \in Slots :
    (pc[p] = "idle" /\ req[p].op \in WholeReads /\ solo[p] /\ ~pre[p].exists)
    => LET f == FileOf(req[p].op)
           d == IF f = SETTINGS_FILE THEN defaultSettings ELSE Arr(<<>>)
       IN  /\ resp[p] = Response(200, TRUE, d, "")
           /\ exists[f]
           /\ JSONparse(content[f]) = ParseOk(d, Len(content[f]) + 1)
           /\ f = SETTINGS_FILE =>
                Prop(Prop(resp[p].data, "systemSettings"), "recaptchaEnabled")
                  = Lit("false")

\* the settings document was read while absent
C7_Witness ==
  \E p \in Slots :
    /\ RanAlone(p, "getSettings")
    /\ ~pre[p].exists
    /\ exists[SETTINGS_FILE]
    /\ resp[p].status = 200

\* C8: a getSettings right after a putSettings(v) answers exactly v, and a
\* getMessages right after a putMessages(v) answers exactly v, whatever the
\* document held before.
C8_PutThenGet ==
  \A p \in Slots :
    /\ (RanAlone(p, "getSettings") /\ Follows(p, "putSettings", ""))
         => resp[p] = Response(200, TRUE, pred[p].req.body, "")
    /\ (RanAlone(p, "getMessages") /\ Follows(p, "putMessages", ""))
         => resp[p] = Response(200, TRUE, pred[p].req.body, "")

\* a subset of the settings keys was put over the materialized default
C8_Witness ==
  \E p \in Slots :
    /\ RanAlone(p, "getSettings")
    /\ Follows(p, "putSettings", "")
    /\ pred[p].req.body = Obj(<<Mem("walletConfig", Obj(<<>>))>>)
    /\ ValueOf(pred[p].pre, SETTINGS_FILE).v = defaultSettings
    /\ pred[p].pre.exists
    /\ Prop(resp[p].data, "systemSettings") = Undefined

\* the file holds valid JSON of the document's shape
WellShaped(f) ==
  LET r == JSONparse(content[f])
  IN  /\ r.ok
      /\ f = USERS_FILE =>
           (r.v.k = "arr" /\ \A i \in 1..Len(r.v.e) : r.v.e[i].k = "obj")
      /\ f = SETTINGS_FILE => r.v.k = "obj"

\* C9: every document file that exists holds valid JSON of its document's
\* shape; stated here for the states in which no request is in flight, where
\* no write is under way.
C9_FilesWellShaped ==
  InFlight = {} =>
    \A f \in {USERS_FILE, SETTINGS_FILE} : exists[f] => WellShaped(f)

\* C10: a read that overlaps a write of its document sees the whole text
\* from before or after the write, and so is never answered with the parse
\* failure of an empty or cut text.
C10_ReadsSeeWholeDocument ==
  \A p \in Slots :
    (pc[p] = "idle" /\ req[p].op \in ReadOps)
      => resp[p].message # "SyntaxError"

(***************************************************************************)
(* Properties of the storage endpoints on a file system that may fail.     *)
(***************************************************************************)
\* the file operation request p waits for cannot succeed in this state: the
\* file system refuses it, or the text to be read is not JSON
OperationFails(p) ==
  LET f == FileOf(req[p].op)
  IN  \/ io = "fail"
      \/ pc[p] = "read" /\ exists[f] /\ ~JSONparse(content[f]).ok

\* readJSONFile of request p returns a value on p's next step
ReadReturns(p) ==
  /\ ~OperationFails(p)
  /\ \/ pc[p] = "read" /\ exists[FileOf(req[p].op)]
     \/ pc[p] = "mat_write"

\* the value it returns: the parsed text, or the default just written
ReadValue(p) ==
  LET f == FileOf(req[p].op)
  IN  IF pc[p] = "read" THEN JSONparse(content[f]).v ELSE DefaultValue(f)

\* value v lists no record whose id is `id`
NoRecord(v, id) == v.k # "arr" \/ FindIndex(v.e, id) = 0

Initialized == boot \in {"ready", "listening"}

\* C12: once ensureStorageExists has returned without an error, the storage
\* root and every media directory exist, whichever of them existed when the
\* process started.
C12_AllDirectoriesExist == Initialized => dirs = AllDirs

\* C18: a request is handled only once app.listen was called, which happens
\* only after ensureStorageExists returned without an error; a failing mkdir
\* ends the process, which stays ended and has handled no request.
C18_ListenAfterInit ==
  /\ [](nreq > 0 => boot = "listening")
  /\ [](boot = "exited" => nreq = 0 /\ InFlight = {})
  /\ [][/\ boot' = "listening" => Initialized
        /\ boot = "exited" => boot' = "exited"
        /\ (boot \in {MkdirPc[k] : k \in 1..Len(MkdirPc)} /\ io = "fail"
            /\ boot' # boot) => boot' = "exited"]_vars

\* a request was answered by a process whose start-up created the directories
C18_Witness ==
  /\ boot = "listening"
  /\ dirs = AllDirs
  /\ \E p \in Slots : pc[p] = "idle" /\ resp[p].status = 200

\* C13: readJSONFile turns to writing the default only when fs.readFile found
\* no file; a read of an existing file whose text is not JSON, or that the
\* file system refuses, ends the request with an error and changes no file.
C13_DefaultOnlyWhenMissing ==
  [][\A p \in Slots :
       (pc[p] = "read" /\ pc'[p] # pc[p]) =>
         LET f == FileOf(req[p].op)
         IN  /\ pc'[p] = "mat_open" => (~exists[f] /\ io = "ok")
             /\ (exists[f] /\ OperationFails(p)) =>
                  /\ pc'[p] = "idle"
                  /\ resp'[p].status = 500
                  /\ exists' = exists
                  /\ content' = content]_vars

\* a read met an existing file whose text is not JSON, and the text is still
\* there
C13_Witness ==
  \E p \in Slots :
    LET f == FileOf(req[p].op)
    IN  /\ pc[p] = "idle"
        /\ req[p].op \in ReadOps
        /\ resp[p].status = 500
        /\ resp[p].message = "SyntaxError"
        /\ exists[f]
        /\ ~JSONparse(content[f]).ok

(***************************************************************************)
(* Properties of requests that overlap a read of a missing file.           *)
(***************************************************************************)
\* C14: while putSettings(v) stands answered 200 and no request has been
\* issued since, a getSettings that completes returns v, also when it found
\* the file missing before the put wrote it.
C14_PutSurvivesPendingRead ==
  [][\A p, q \in Slots :
       ( /\ req[q].op = "putSettings"
         /\ pc[q] = "idle"
         /\ resp[q].status = 200
         /\ req[p].op = "getSettings"
         /\ pc[p] # "idle"
         /\ pc'[p] = "idle" )
       => resp'[p] = Response(200, TRUE, req[q].body, "")]_vars

\* every request issued so far is still on record
AllOnRecord == \A k \in 1..nreq : \E q \in Slots : req[q].n = k

\* C15: when delete(i) stands answered 200 and no upsert with path id i or
\* body id i was issued, the Users document holds no record with id i, also
\* when a request for another id overlapped the delete (stated for the runs
\* whose requests are all still on record).
C15_DeletedStaysDeleted ==
  \A i \in Ids :
    ( /\ AllOnRecord
      /\ \E q \in Slots : /\ req[q].op = "delete"
                          /\ req[q].id = i
                          /\ pc[q] = "idle"
                          /\ resp[q].status = 200
      /\ \A q \in Slots : req[q].op = "upsert" =>
                            /\ req[q].id # i
                            /\ Prop(req[q].body, "id") # Str(i)
      /\ HoldsUsers(Current(USERS_FILE)) )
    => FindIndex(UsersIn(Current(USERS_FILE)), i) = 0

\* C16: every request to a storage endpoint receives exactly one response,
\* whatever its file operations do: none is sent while the handler is still
\* waiting, the one sent is never replaced, and every request in flight is
\* answered in the end with status 200, 404 or 500.
C16_ExactlyOneResponse ==
  /\ [](\A p \in Slots : pc[p] # "idle" => resp[p] = NoResponse)
  /\ [][\A p \in Slots :
          (pc[p] = "idle" /\ pc'[p] = "idle" /\ req'[p] = req[p])
            => resp'[p] = resp[p]]_vars
  /\ \A p \in Slots :
       (pc[p] # "idle") ~>
         (pc[p] = "idle" /\ resp[p].status \in {200, 404, 500})

\* one request was answered 200 and one, whose read was refused, 500
C16_Witness ==
  \E p, q \in Slots :
    /\ pc[p] = "idle" /\ resp[p].status = 200
    /\ pc[q] = "idle" /\ resp[q].status = 500 /\ resp[q].message = "EACCES"

\* a step changes a file only on behalf of a pending request for that file
WritesOwnDocument ==
  \A f \in Files :
    (exists'[f] # exists[f] \/ content'[f] # content[f]) =>
      \E p \in Slots :
        Pending(p) /\ pc'[p] # pc[p] /\ FileOf(req[p].op) = f

\* a step of a read operation leaves the text of an existing document alone
\* (the file the operation has itself just created is still empty)
ReadsKeepExisting ==
  \A p \in Slots :
    LET f == FileOf(req[p].op)
    IN  ( /\ Pending(p)
          /\ pc'[p] # pc[p]
          /\ req[p].op \in ReadOps
          /\ exists[f]
          /\ content[f] # <<>> )
          => content'[f] = content[f]

\* C17: each operation writes only its own document, and the read operations
\* (list, get, getSettings, getMessages) leave the content of a document that
\* already exists unchanged.
C17_OwnDocumentOnly == [][WritesOwnDocument /\ ReadsKeepExisting]_vars

\* the first half alone
OwnDocumentOnly == [][WritesOwnDocument]_vars

(***************************************************************************)
(* Properties of the verification-email endpoint.                          *)
(***************************************************************************)
\* C19: the endpoint answers {success: true} (200) only after its send
\* completed without error; with EMAIL_USER or EMAIL_APP_PASSWORD absent it
\* answers {success: false} (500) and no send is attempted; a send that
\* fails is answered {success: false} (500).
C19_MailResponses ==
  \A p \in Slots :
    (req[p].op = "sendMail" /\ pc[p] = "idle") =>
      /\ resp[p].status \in {200, 500}
      /\ resp[p].success = (resp[p].status = 200)
      /\ resp[p].status = 200 => mail[p].outcome = "sent"
      /\ ~(cred.user /\ cred.pass) =>
           /\ resp[p].status = 500
           /\ ~mail[p].attempted
      /\ mail[p].outcome = "failed" => resp[p].status = 500

\* one mail request was answered after its send succeeded, one after it failed
C19_Witness ==
  \E p, q \in Slots :
    /\ req[p].op = "sendMail" /\ pc[p] = "idle"
    /\ resp[p].status = 200 /\ mail[p].outcome = "sent"
    /\ req[q].op = "sendMail" /\ pc[q] = "idle"
    /\ resp[q].status = 500 /\ mail[q].outcome = "failed"

====
